---- MODULE Spec2Model ----
(***************************************************************************)
(* TypeSnake-v3: the game-tick state machine of the engine                 *)
(* (src/src/core/GameEngine.ts, second GameEngine class, lines 430-1025),  *)
(* its entities (Snake, Apple), the power-up manager and strategies, and   *)
(* the state store (GameStateService of src/src/services/InputService.ts,  *)
(* lines 115-305, the variant that holds activePowerUps).                  *)
(*                                                                         *)
(* Timers.  The runtime's timers are modelled without a clock.  A tick or  *)
(* blink interval timer may fire whenever it is scheduled.  The two        *)
(* timeouts created when a timed power-up is eaten (the engine's removal   *)
(* of the active record, GameEngine.ts:777-780, and the strategy's own     *)
(* remove, e.g. PowerUpStrategies.ts:27-30) have the same delay and are    *)
(* created back to back, so they run back to back: one Expire step.        *)
(* Durations are configuration (IPowerUpSettings.duration), so effects of  *)
(* different types may expire in either order; effects of one type expire  *)
(* in the order they were applied.                                         *)
(*                                                                         *)
(* Random draws (apple and power-up cells, probability draws, the teleport *)
(* target) are choices among the results the draw can have.  The engine's  *)
(* live timers are counted (tickTimers, blinkTimers) beside the handles it *)
(* keeps (gameInterval, blinkInterval), so that a timer that is scheduled  *)
(* without a handle, or twice, would show.                                 *)
(*                                                                         *)
(* Specifications.  One per configuration of enabled power-up types: Spec  *)
(* (magnet), SpecWide (magnet on a wider board, played without the space   *)
(* and r keys), SpecInvincible, SpecSpeed (slowMotion), SpecOverlap        *)
(* (slowMotion and boost, played without the space and r keys), SpecBonus, *)
(* SpecFreeze, SpecTeleport (teleport and magnet, played without the space *)
(* and r keys), SpecField (no power-up type enabled, a 3x3 board), SpecEnds *)
(* (magnet, invincibility or freeze, with expiries that are delivered). The *)
(* Snake class is also checked on its own, its operations called with any  *)
(* arguments: SpecSnake, and SpecSnakeTeleport with teleportTo; so is      *)
(* MathUtils.wrapPosition (SpecWrap) and so is the PowerUpManager's list   *)
(* (SpecManager), the state store with the snapshots it hands out          *)
(* (SpecStore), the strategy objects (SpecStrategy), the removals of the   *)
(* three together (SpecRemoval) and the store's flags (SpecStoreFlags).    *)
(***************************************************************************)
EXTENDS Integers, Sequences, FiniteSets, TLC

\* ------------------------------------------------------------------ bounds
\* The longest snake, the most effects pending expiry at once and the longest
\* tick interval (slowMotion effects can stack) a tick is allowed to produce.
MaxLen == 4
MaxPending == 2
MaxUpdateTime == 270
\* The widest and highest board, and the largest coordinate in either sign,
\* that wrapPosition is called with on its own.
MaxSide == 3
MaxCoord == 7
\* The most snapshots of the store held by its clients at once, and the
\* longest list a client makes of a snapshot's list.
MaxViews == 2
MaxList == 2

\* --------------------------------------------------------- program constants
SpeedHigh == 70
ScorePerApple == 5
ExpandedRange == 1
NoTimer == 0

ConfigBackground == "cfg"
NoPos == <<-1, -1>>
NoType == "none"

\* Boards of a configuration (IBoardConfig): a row three wide, where the two end
\* cells are neighbours only across the edge, a square, a board with room
\* for a snake, an apple and a power-up apart from each other, and a field on
\* which no step forward wraps onto the cell behind the head.
Row == [width |-> 3, height |-> 1]
Square == [width |-> 2, height |-> 2]
Wide == [width |-> 3, height |-> 2]
Field == [width |-> 3, height |-> 3]

BoardCells(board) == (0 .. board.width - 1) \X (0 .. board.height - 1)
Directions == {<<0, -1>>, <<0, 1>>, <<-1, 0>>, <<1, 0>>}

TypeOrder == <<"magnet", "slowMotion", "bonus", "invincibility", "boost", "teleport", "freeze">>
Types == {TypeOrder[i] : i \in DOMAIN TypeOrder}

\* --------------------------------------------------------------- MathUtils
Abs(n) == IF n < 0 THEN -n ELSE n

Max(a, b) == IF a > b THEN a ELSE b

\* The remainder of JavaScript's %: it has the sign of the dividend.
JsRem(a, b) == IF a >= 0 THEN a % b ELSE -((-a) % b)

positionsEqual(p, q) == p[1] = q[1] /\ p[2] = q[2]

\* A faulty variant of isInRange that measures the Euclidean distance.
isInRangeEuclid(center, target, r) ==
  (center[1] - target[1]) * (center[1] - target[1])
    + (center[2] - target[2]) * (center[2] - target[2]) <= r * r

isInRangeMath(center, target, r) ==
  Abs(center[1] - target[1]) <= r /\ Abs(center[2] - target[2]) <= r

wrapPosition(p, w, h) == <<JsRem(p[1] + w, w), JsRem(p[2] + h, h)>>

SeqToSet(s) == {s[i] : i \in DOMAIN s}

\* ------------------------------------------------------------------- variables
VARIABLES
  config,     \* IGameConfig: the board and the power-up types it enables
  started,    \* start() has run
  snake,      \* Snake: segments (head first) and direction
  apple,      \* Apple.position
  powerUps,   \* PowerUpManager.activePowerUps: the power-ups on the board
  state,      \* GameStateService.state
  engine,     \* the engine's private fields, and the live timers it created
  effects,    \* applied strategy instances whose expiry timeouts are pending
  snapshots,  \* the objects getState() returned that its callers still hold
  last        \* what the last handler did (history, read by the properties only)

vars == <<config, started, snake, apple, powerUps, state, engine, effects, snapshots, last>>

Cells == BoardCells(config.board)

\* ------------------------------------------------------------------- Snake
getCenter == <<config.board.width \div 2, config.board.height \div 2>>

NewSnake(p) == [segments |-> <<p>>, direction |-> <<0, -1>>]

\* A faulty variant of setDirection that rejects the opposite direction at
\* every length.
setDirectionAnyLength(s, d) ==
  IF positionsEqual(d, <<-s.direction[1], -s.direction[2]>>)
  THEN s
  ELSE [s EXCEPT !.direction = d]

setDirection(s, d) ==
  IF Len(s.segments) > 1 /\ positionsEqual(d, <<-s.direction[1], -s.direction[2]>>)
  THEN s
  ELSE [s EXCEPT !.direction = d]

\* move(): the snake after the move; the vacated tail is MovedTail(s).
MovedTail(s) == s.segments[Len(s.segments)]

\* A faulty variant of move that does not wrap the new head onto the board.
moveUnwrapped(s) ==
  LET head == s.segments[1]
      newHead == <<head[1] + s.direction[1], head[2] + s.direction[2]>>
  IN [s EXCEPT !.segments = <<newHead>> \o SubSeq(s.segments, 1, Len(s.segments) - 1)]

move(s) ==
  LET head == s.segments[1]
      newHead == <<head[1] + s.direction[1], head[2] + s.direction[2]>>
      wrapped == wrapPosition(newHead, config.board.width, config.board.height)
  IN [s EXCEPT !.segments = <<wrapped>> \o SubSeq(s.segments, 1, Len(s.segments) - 1)]

\* A faulty variant of grow that adds nothing when the last segment already is
\* the tail position.
growOnce(s, tailPosition) ==
  IF s.segments[Len(s.segments)] = tailPosition THEN s
  ELSE [s EXCEPT !.segments = Append(s.segments, tailPosition)]

grow(s, tailPosition) == [s EXCEPT !.segments = Append(s.segments, tailPosition)]

\* A faulty variant of checkSelfCollision that compares the head with itself too.
checkSelfCollisionFromHead(s) ==
  \E i \in 1 .. Len(s.segments) : positionsEqual(s.segments[1], s.segments[i])

checkSelfCollision(s) ==
  \E i \in 2 .. Len(s.segments) : positionsEqual(s.segments[1], s.segments[i])

teleportTo(s, p) == [s EXCEPT !.segments[1] = p]

\* ------------------------------------------------------------- state store
InitialState(segs, applePos) ==
  [snake |-> segs, apple |-> applePos, score |-> 0, powerUps |-> <<>>,
   isGameOver |-> FALSE, isPaused |-> FALSE, activePowerUps |-> <<>>]

addActivePowerUp(st, t) ==
  IF t \in SeqToSet(st.activePowerUps) THEN st
  ELSE [st EXCEPT !.activePowerUps = Append(@, t)]

RemoveAt(s, i) == SubSeq(s, 1, i - 1) \o SubSeq(s, i + 1, Len(s))

FirstIndex(s, t) == CHOOSE i \in DOMAIN s : s[i] = t /\ \A j \in 1 .. i - 1 : s[j] # t

removeActivePowerUp(st, t) ==
  IF t \in SeqToSet(st.activePowerUps)
  THEN [st EXCEPT !.activePowerUps = RemoveAt(@, FirstIndex(@, t))]
  ELSE st

\* A faulty variant of setGameOver that sets the paused flag along with it.
setGameOverPausing(st, v) == [st EXCEPT !.isGameOver = v, !.isPaused = v]

setGameOver(st, v) == [st EXCEPT !.isGameOver = v]

\* A faulty variant of setPaused that can only pause.
setPausedOnly(st, v) == [st EXCEPT !.isPaused = TRUE]

setPaused(st, v) == [st EXCEPT !.isPaused = v]

\* A faulty variant of incrementScore that adds the configured score per apple.
incrementScoreConfigured(st, points) == [st EXCEPT !.score = @ + ScorePerApple]

incrementScore(st, points) == [st EXCEPT !.score = @ + points]

\* -------------------------------------------------------------- PowerUpManager
NoPowerUp == [type |-> NoType, position |-> NoPos]

Positions(list) == {list[i].position : i \in DOMAIN list}

TypesOf(list) == {list[i].type : i \in DOMAIN list}

\* A faulty variant of addPowerUp that does not look for the type in the list.
addPowerUpUnchecked(list, p) == Append(list, p)

addPowerUp(list, p) == IF p.type \in TypesOf(list) THEN list ELSE Append(list, p)

removePowerUp(list, t) ==
  IF t \in TypesOf(list)
  THEN RemoveAt(list, CHOOSE i \in DOMAIN list :
                        list[i].type = t /\ \A j \in 1 .. i - 1 : list[j].type # t)
  ELSE list

\* What removePowerUp returns: the position of the power-up it removed, NoPos
\* for null.
removePowerUpReturns(list, t) ==
  IF t \in TypesOf(list)
  THEN list[CHOOSE i \in DOMAIN list :
              list[i].type = t /\ \A j \in 1 .. i - 1 : list[j].type # t].position
  ELSE NoPos

findPowerUpAtPosition(list, pos) ==
  IF \E i \in DOMAIN list : positionsEqual(list[i].position, pos)
  THEN list[CHOOSE i \in DOMAIN list :
              /\ positionsEqual(list[i].position, pos)
              /\ \A j \in 1 .. i - 1 : ~positionsEqual(list[j].position, pos)]
  ELSE NoPowerUp

\* A faulty variant of generateValidPosition that does not test the cell drawn.
generateValidPositionUntested(occupied) == Cells \cup {NoPos}

\* The results a bounded random search for a cell not in occupied can have:
\* any free cell, or none found when every attempt hit an occupied cell.
generateValidPosition(occupied) ==
  (Cells \ occupied) \cup (IF Cells \cap occupied # {} THEN {NoPos} ELSE {})

\* One run of generateRandomPowerUps over the configured types from index i on.
\* roll[t] is what the draws gave type t: the cell found for it, or NoPos when
\* the type is disabled, its probability draw failed or no cell was found.
RECURSIVE RollPossible(_, _, _, _)
RollPossible(i, roll, occupied, enabled) ==
  IF i > Len(TypeOrder) THEN TRUE
  ELSE LET t == TypeOrder[i] IN
       IF roll[t] = NoPos
       THEN RollPossible(i + 1, roll, occupied, enabled)
       ELSE /\ t \in enabled
            /\ roll[t] \in generateValidPosition(occupied)
            /\ RollPossible(i + 1, roll, occupied \cup {roll[t]}, enabled)

RECURSIVE generateRandomPowerUps(_, _)
generateRandomPowerUps(i, roll) ==
  IF i > Len(TypeOrder) THEN <<>>
  ELSE LET t == TypeOrder[i] IN
       IF roll[t] = NoPos THEN generateRandomPowerUps(i + 1, roll)
       ELSE <<[type |-> t, position |-> roll[t]]>> \o generateRandomPowerUps(i + 1, roll)

RECURSIVE AddAll(_, _)
AddAll(list, new) ==
  IF new = <<>> THEN list ELSE AddAll(addPowerUp(list, Head(new)), Tail(new))

NoRoll == [t \in Types |-> NoPos]

Rolls(occupied, enabled) ==
  {roll \in {[t \in Types |-> IF t \in enabled THEN r[t] ELSE NoPos] :
               r \in [enabled -> Cells \cup {NoPos}]} :
     RollPossible(1, roll, occupied, enabled)}

\* ------------------------------------------------- engine: tick and blink loop
startBlinkInterval(e) ==
  IF e.blinkInterval THEN e
  ELSE [e EXCEPT !.blinkInterval = TRUE, !.blinkTimers = @ + 1]

stopBlinkInterval(e) ==
  IF e.blinkInterval
  THEN [e EXCEPT !.blinkInterval = FALSE, !.blinkTimers = @ - 1,
                 !.previousBlinkState = FALSE]
  ELSE e

\* A faulty variant of startGameLoop that runs the tick timer at the configured
\* interval.
startGameLoopConfigured(e) ==
  IF e.gameInterval # NoTimer THEN e
  ELSE startBlinkInterval([e EXCEPT !.gameInterval = SpeedHigh, !.tickTimers = @ + 1])

\* A faulty variant of startGameLoop that does not look whether the tick timer
\* is already running.
startGameLoopAgain(e) ==
  startBlinkInterval([e EXCEPT !.gameInterval = e.currentUpdateTime,
                               !.tickTimers = @ + 1])

startGameLoop(e) ==
  IF e.gameInterval # NoTimer THEN e
  ELSE startBlinkInterval([e EXCEPT !.gameInterval = e.currentUpdateTime,
                                    !.tickTimers = @ + 1])

stopGameLoop(e) ==
  stopBlinkInterval(IF e.gameInterval # NoTimer
                    THEN [e EXCEPT !.gameInterval = NoTimer, !.tickTimers = @ - 1]
                    ELSE e)

\* IPowerUpContext.clearInterval / setInterval as the engine implements them.
ctxClearInterval(e) == stopGameLoop(e)

ctxSetInterval(e, time) ==
  [stopGameLoop(e) EXCEPT !.currentUpdateTime = time, !.gameInterval = time,
                          !.tickTimers = @ + 1]

\* ----------------------------------------------------------- engine: context
InitialEngine ==
  [gameInterval |-> NoTimer, blinkInterval |-> FALSE, previousBlinkState |-> FALSE,
   range |-> "regular", currentBackgroundIcon |-> ConfigBackground,
   currentScorePerApple |-> ScorePerApple, currentUpdateTime |-> SpeedHigh,
   invincibilityActive |-> FALSE, gameFrozen |-> FALSE,
   tickTimers |-> 0, blinkTimers |-> 0]

isInRange(range, pos1, pos2) ==
  IF range = "regular" THEN positionsEqual(pos1, pos2)
  ELSE isInRangeMath(pos1, pos2, ExpandedRange)

\* The cells teleportSnake may pick: a cell that is no segment, not the apple and
\* no power-up of the store's snapshot, or the current head when every attempt
\* hit an occupied cell.
TeleportTargets(w) ==
  LET occupied == SeqToSet(w.snake.segments) \cup {w.apple} \cup Positions(w.state.powerUps)
  IN (Cells \ occupied) \cup {w.snake.segments[1]}

teleportSnake(w, target) == [w EXCEPT !.snake = teleportTo(w.snake, target)]

\* ------------------------------------------------------------ PowerUpStrategies
\* A strategy instance whose apply has run and whose remove is still to run:
\* its type and the values its apply captured.
Instance(t, e) ==
  [type |-> t,
   originalUpdateTime |->
     IF t \in {"slowMotion", "boost"} THEN e.currentUpdateTime ELSE 0,
   originalBackgroundIcon |-> IF t = "bonus" THEN e.currentBackgroundIcon ELSE "",
   originalScorePerApple |-> IF t = "bonus" THEN e.currentScorePerApple ELSE 0]

getDuration(t) ==
  CASE t = "teleport" -> 0
    [] t = "invincibility" -> 3000
    [] t = "boost" -> 2500
    [] t = "freeze" -> 1500
    [] OTHER -> 2000

MagnetApply(e) == [e EXCEPT !.range = "expanded"]
MagnetRemove(e) == [e EXCEPT !.range = "regular"]

SlowMotionApply(e) == ctxSetInterval(ctxClearInterval(e), e.currentUpdateTime + 200)
\* A faulty variant of the slow-motion strategy's remove that takes back what
\* apply added instead of restoring the interval apply captured.
SlowMotionRemoveRelative(e, inst) ==
  ctxSetInterval(ctxClearInterval(e), e.currentUpdateTime - 200)

SlowMotionRemove(e, inst) == ctxSetInterval(ctxClearInterval(e), inst.originalUpdateTime)

BonusApply(e) == [e EXCEPT !.currentScorePerApple = 15]
BonusFlipIcon(e) ==
  [e EXCEPT !.currentBackgroundIcon = IF @ = "blue" THEN "white" ELSE "blue"]
BonusRemove(e, inst) ==
  [e EXCEPT !.currentBackgroundIcon = inst.originalBackgroundIcon,
            !.currentScorePerApple = inst.originalScorePerApple]

InvincibilityApply(e) == [e EXCEPT !.invincibilityActive = TRUE]
\* A faulty variant of the invincibility strategy's remove that leaves the flag.
InvincibilityRemoveInert(e) == e

InvincibilityRemove(e) == [e EXCEPT !.invincibilityActive = FALSE]

\* A faulty variant of the boost strategy's apply without the lower limit.
BoostApplyUnclamped(e) ==
  ctxSetInterval(ctxClearInterval(e), e.currentUpdateTime - 100)

BoostApply(e) == ctxSetInterval(ctxClearInterval(e), Max(30, e.currentUpdateTime - 100))
BoostRemove(e, inst) == ctxSetInterval(ctxClearInterval(e), inst.originalUpdateTime)

\* A faulty variant of the freeze strategy's apply that does not set the flag.
FreezeApplyInert(e) == e

FreezeApply(e) == [e EXCEPT !.gameFrozen = TRUE]
FreezeRemove(e) == [e EXCEPT !.gameFrozen = FALSE]

\* PowerUp.apply: the strategy's apply on the engine as context; a timed
\* strategy also schedules its own remove, kept in w.effects.
StrategyApply(t, e) ==
  CASE t = "magnet" -> MagnetApply(e)
    [] t = "slowMotion" -> SlowMotionApply(e)
    [] t = "bonus" -> BonusApply(e)
    [] t = "invincibility" -> InvincibilityApply(e)
    [] t = "boost" -> BoostApply(e)
    [] t = "freeze" -> FreezeApply(e)
    [] OTHER -> e

StrategyRemove(inst, e) ==
  CASE inst.type = "magnet" -> MagnetRemove(e)
    [] inst.type = "slowMotion" -> SlowMotionRemove(e, inst)
    [] inst.type = "bonus" -> BonusRemove(e, inst)
    [] inst.type = "invincibility" -> InvincibilityRemove(e)
    [] inst.type = "boost" -> BoostRemove(e, inst)
    [] inst.type = "freeze" -> FreezeRemove(e)
    [] OTHER -> e

powerUpApply(w, t, target) ==
  IF t = "teleport" THEN teleportSnake(w, target)
  ELSE [w EXCEPT !.engine = StrategyApply(t, w.engine),
                 !.effects = Append(@, Instance(t, w.engine))]

\* ------------------------------------------------------------- the whole game
World ==
  [snake |-> snake, apple |-> apple, powerUps |-> powerUps, state |-> state,
   engine |-> engine, effects |-> effects]

Becomes(w) ==
  /\ snake' = w.snake
  /\ apple' = w.apple
  /\ powerUps' = w.powerUps
  /\ state' = w.state
  /\ engine' = w.engine
  /\ effects' = w.effects
  /\ snapshots' = snapshots

Event(op) ==
  [op |-> op, outcome |-> "none", collided |-> FALSE, invincible |-> FALSE,
   head |-> NoPos, range |-> "regular", appleWas |-> NoPos,
   ateApple |-> FALSE, atePowerUp |-> NoType, validated |-> FALSE,
   residents |-> {}, arg |-> NoPos, returned |-> NoPos, type |-> NoType]

\* ------------------------------------------------------------ engine handlers
\* A faulty variant of gameOver that leaves the tick loop running.
gameOverKeepsLoop(w) == [w EXCEPT !.state = setGameOver(@, TRUE)]

gameOver(w) ==
  [w EXCEPT !.state = setGameOver(@, TRUE), !.engine = stopGameLoop(@)]

updateGameState(w) ==
  [w EXCEPT !.state = [@ EXCEPT !.snake = w.snake.segments, !.apple = w.apple,
                                !.powerUps = w.powerUps]]

\* The occupied cells eatApple hands to Apple.respawn and generateRandomPowerUps.
EatAppleOccupied(w, tailPosition) ==
  SeqToSet(grow(w.snake, tailPosition).segments) \cup Positions(w.powerUps)

\* Apple.respawn: the validator's cell v, or when it found none (v = NoPos) the
\* unchecked cell f of generateNewPosition.
respawn(v, f) == IF v # NoPos THEN v ELSE f

eatApple(w, tailPosition, v, f, roll) ==
  [w EXCEPT !.snake = grow(@, tailPosition),
            !.state = incrementScore(@, w.engine.currentScorePerApple),
            !.apple = respawn(v, f),
            !.powerUps = AddAll(@, generateRandomPowerUps(1, roll))]

eatPowerUp(w, p, tailPosition, target) ==
  LET w1 == [w EXCEPT !.snake = grow(@, tailPosition),
                      !.state = IF getDuration(p.type) > 0
                                THEN addActivePowerUp(@, p.type) ELSE @]
      w2 == powerUpApply(w1, p.type, target)
  IN [w2 EXCEPT !.powerUps = removePowerUp(@, p.type)]

togglePause(w) ==
  IF w.state.isGameOver THEN w
  ELSE [w EXCEPT !.state = setPaused(@, ~w.state.isPaused),
                 !.engine = IF w.state.isPaused THEN startGameLoop(@)
                            ELSE stopGameLoop(@)]

start(w) == [w EXCEPT !.engine = startGameLoop(@)]

\* A faulty variant of restart that leaves the range policy as it is.
restartKeepsRange(w, v, f) ==
  LET s == NewSnake(getCenter)
      a == respawn(v, f)
  IN start([w EXCEPT !.engine = [stopGameLoop(@) EXCEPT
                                   !.currentBackgroundIcon = ConfigBackground,
                                   !.currentScorePerApple = ScorePerApple],
                     !.snake = s,
                     !.apple = a,
                     !.powerUps = <<>>,
                     !.state = InitialState(s.segments, a)])

restart(w, v, f) ==
  LET s == NewSnake(getCenter)
      a == respawn(v, f)
  IN start([w EXCEPT !.engine = [stopGameLoop(@) EXCEPT
                                   !.range = "regular",
                                   !.currentBackgroundIcon = ConfigBackground,
                                   !.currentScorePerApple = ScorePerApple],
                     !.snake = s,
                     !.apple = a,
                     !.powerUps = <<>>,
                     !.state = InitialState(s.segments, a)])

\* update() past the paused, game-over and frozen returns and past the collision
\* check: the eating steps, with the cells the random draws gave.
simulate(w, tailPosition, v, f, roll, target) ==
  LET head == w.snake.segments[1]
      w1 == IF isInRange(w.engine.range, head, w.apple)
            THEN eatApple(w, tailPosition, v, f, roll) ELSE w
      p == findPowerUpAtPosition(w1.powerUps, head)
      w2 == IF p # NoPowerUp /\ isInRange(w1.engine.range, head, p.position)
            THEN eatPowerUp(w1, p, tailPosition, target) ELSE w1
  IN updateGameState(w2)

\* ----------------------------------------------------------------------- Init
InitWith(boards, enabled) ==
  /\ config \in {[board |-> b, powerUps |-> e] : b \in boards, e \in enabled}
  /\ started = FALSE
  /\ snake = NewSnake(getCenter)
  /\ apple \in Cells
  /\ powerUps = <<>>
  /\ state = InitialState(snake.segments, apple)
  /\ engine = InitialEngine
  /\ effects = <<>>
  /\ snapshots = <<>>
  /\ last = Event("construct")

\* The configurations checked, by the power-up types they enable: the type that
\* widens the eating range, on small boards and on a wider one; the type that
\* sets the invincibility flag; a type that changes the tick interval, alone and with the
\* other such type; the type that runs an interval of its own.
Init == InitWith({Row, Square}, {{"magnet"}})

InitWide == InitWith({Wide}, {{"magnet"}})

InitInvincible == InitWith({Square}, {{"invincibility"}})

InitSpeed == InitWith({Square}, {{"slowMotion"}})

InitOverlap == InitWith({Square}, {{"slowMotion", "boost"}})

InitBonus == InitWith({Row}, {{"bonus"}})

InitFreeze == InitWith({Row, Square}, {{"freeze"}})

InitField == InitWith({Field}, {{}})

InitTeleport == InitWith({Square}, {{"teleport", "magnet"}})

\* One of the three types whose effect is a flag of the context.
InitEnds == InitWith({Row}, {{"magnet"}, {"invincibility"}, {"freeze"}})

\* -------------------------------------------------------------------- actions
Start ==
  /\ ~started
  /\ started' = TRUE
  /\ Becomes(start(World))
  /\ last' = Event("start")
  /\ UNCHANGED config

\* A faulty variant of the movement handler that lacks its guard.
DirectionUnguarded(d) ==
  /\ started
  /\ Becomes([World EXCEPT !.snake = setDirection(@, d)])
  /\ last' = Event("other")
  /\ UNCHANGED <<config, started>>

Direction(d) ==
  /\ started
  /\ Becomes(IF ~state.isPaused /\ ~state.isGameOver
             THEN [World EXCEPT !.snake = setDirection(@, d)] ELSE World)
  /\ last' = Event("other")
  /\ UNCHANGED <<config, started>>

Space ==
  /\ started
  /\ Becomes(IF ~state.isGameOver THEN togglePause(World) ELSE World)
  /\ last' = Event("other")
  /\ UNCHANGED <<config, started>>

Restart ==
  /\ started
  /\ \E v \in generateValidPosition({getCenter}) :
     \E f \in IF v = NoPos THEN Cells ELSE {v} :
       /\ Becomes(restart(World, v, f))
       /\ last' = [Event("restart") EXCEPT !.validated = (v # NoPos)]
  /\ UNCHANGED <<config, started>>

Update ==
  /\ started
  /\ engine.tickTimers > 0
  /\ UNCHANGED <<config, started>>
  /\ IF state.isPaused \/ state.isGameOver
     THEN /\ Becomes(World)
          /\ last' = [Event("update") EXCEPT !.outcome = "idle"]
     ELSE IF engine.gameFrozen
     THEN /\ Becomes(World)
          /\ last' = [Event("update") EXCEPT !.outcome = "frozen"]
     ELSE
       LET tailPosition == MovedTail(snake)
           moved == [World EXCEPT !.snake = move(@)]
           head == moved.snake.segments[1]
           collided == checkSelfCollision(moved.snake)
           ran == [Event("update") EXCEPT
                     !.collided = collided,
                     !.invincible = engine.invincibilityActive,
                     !.head = head, !.range = engine.range, !.appleWas = apple]
       IN IF ~engine.invincibilityActive /\ collided
          THEN /\ Becomes(gameOver(moved))
               /\ last' = [ran EXCEPT !.outcome = "gameover"]
          ELSE
            LET eats == isInRange(engine.range, head, apple)
                occupied == EatAppleOccupied(moved, tailPosition)
            IN \E v \in IF eats THEN generateValidPosition(occupied) ELSE {NoPos},
                  roll \in IF eats THEN Rolls(occupied, config.powerUps) ELSE {NoRoll} :
               \E f \in IF eats /\ v = NoPos THEN Cells ELSE {v} :
                 LET afterApple == IF eats THEN eatApple(moved, tailPosition, v, f, roll)
                                   ELSE moved
                     p == findPowerUpAtPosition(afterApple.powerUps, head)
                 IN \E target \in IF p.type = "teleport"
                                  THEN TeleportTargets(
                                         [afterApple EXCEPT !.snake = grow(@, tailPosition)])
                                  ELSE {NoPos} :
                      LET w == simulate(moved, tailPosition, v, f, roll, target) IN
                      /\ Len(w.snake.segments) <= MaxLen
                      /\ Len(w.effects) <= MaxPending
                      /\ w.engine.currentUpdateTime <= MaxUpdateTime
                      /\ Becomes(w)
                      /\ last' = [ran EXCEPT !.outcome = "completed",
                                             !.ateApple = eats,
                                             !.atePowerUp = p.type,
                                             !.validated = (eats /\ v # NoPos),
                                             !.residents =
                                               IF eats THEN Positions(powerUps) ELSE {}]

\* The expiry of the oldest pending effect of a type: the engine's timeout drops
\* the active record, then the strategy's timeout runs its remove.
Expire(i) ==
  /\ i \in DOMAIN effects
  /\ \A j \in 1 .. i - 1 : effects[j].type # effects[i].type
  /\ Becomes([World EXCEPT
                !.state = removeActivePowerUp(@, effects[i].type),
                !.engine = StrategyRemove(effects[i], @),
                !.effects = RemoveAt(@, i)])
  /\ last' = Event("other")
  /\ UNCHANGED <<config, started>>

\* The interval of an applied bonus strategy: flips the background glyph.
BonusFlip ==
  /\ \E i \in DOMAIN effects : effects[i].type = "bonus"
  /\ Becomes([World EXCEPT !.engine = BonusFlipIcon(@)])
  /\ last' = Event("other")
  /\ UNCHANGED <<config, started>>

\* The blink-polling interval: whether some active effect is in its last quarter
\* depends on the clock, so either answer is possible while one is active.
\* A faulty variant of the blink-polling callback that also drops the oldest
\* record of the store's active list.
BlinkPollDropping ==
  /\ engine.blinkTimers > 0
  /\ Becomes([World EXCEPT !.state.activePowerUps =
                IF @ = <<>> THEN @ ELSE RemoveAt(@, 1)])
  /\ last' = Event("other")
  /\ UNCHANGED <<config, started>>

BlinkPoll ==
  /\ engine.blinkTimers > 0
  /\ \E hasBlinkingPowerUps \in IF state.activePowerUps # <<>> THEN BOOLEAN ELSE {FALSE} :
       /\ Becomes([World EXCEPT !.engine.previousBlinkState =
                     IF hasBlinkingPowerUps \/ @ # hasBlinkingPowerUps
                     THEN hasBlinkingPowerUps ELSE @])
       /\ last' = Event("other")
  /\ UNCHANGED <<config, started>>

Next ==
  \/ Start
  \/ \E d \in Directions : Direction(d)
  \/ Space
  \/ Restart
  \/ Update
  \/ \E i \in 1 .. MaxPending : Expire(i)
  \/ BlinkPoll

\* A game played without the space and r keys.
NextPlay ==
  \/ Start
  \/ \E d \in Directions : Direction(d)
  \/ Update
  \/ \E i \in 1 .. MaxPending : Expire(i)
  \/ BlinkPoll

\* With bonus enabled a strategy's glyph-flipping interval exists as well.
NextBonus ==
  \/ Next
  \/ BonusFlip

\* A game with every power-up type disabled, played without the space and r
\* keys: no effect is ever applied.
NextField ==
  \/ Start
  \/ \E d \in Directions : Direction(d)
  \/ Update
  \/ BlinkPoll

\* ------------------------------------------------ the Snake object on its own
\* The public operations of a Snake, called with any arguments: the engine, the
\* apple and the store take no part.
SnakeCall(s, event) ==
  /\ snake' = s
  /\ last' = event
  /\ UNCHANGED <<config, started, apple, powerUps, state, engine, effects, snapshots>>

SnakeSetDirection(d) ==
  SnakeCall(setDirection(snake, d), [Event("setDirection") EXCEPT !.arg = d])

SnakeMove ==
  SnakeCall(move(snake), [Event("move") EXCEPT !.returned = MovedTail(snake)])

SnakeGrow(tailPosition) ==
  /\ Len(snake.segments) < MaxLen
  /\ SnakeCall(grow(snake, tailPosition), [Event("grow") EXCEPT !.arg = tailPosition])

SnakeReset(initialPosition) ==
  SnakeCall(NewSnake(initialPosition), [Event("reset") EXCEPT !.arg = initialPosition])

SnakeCheckSelfCollision ==
  SnakeCall(snake, [Event("checkSelfCollision") EXCEPT
                      !.collided = checkSelfCollision(snake)])

SnakeTeleportTo(p) ==
  SnakeCall(teleportTo(snake, p), [Event("teleportTo") EXCEPT !.arg = p])

InitSnake == InitWith({Row, Square}, {{}}) /\ apple = <<0, 0>>

NextSnake ==
  \/ \E d \in Directions : SnakeSetDirection(d)
  \/ SnakeMove
  \/ \E p \in Cells : SnakeGrow(p)
  \/ \E p \in Cells : SnakeReset(p)
  \/ SnakeCheckSelfCollision

NextSnakeTeleport ==
  \/ NextSnake
  \/ \E p \in Cells : SnakeTeleportTo(p)

\* ------------------------------------------- MathUtils.wrapPosition on its own
\* wrapPosition called with any integer position and the board's dimensions.
WrapPosition(p) ==
  /\ last' = [Event("wrapPosition") EXCEPT
                !.arg = p,
                !.returned = wrapPosition(p, config.board.width, config.board.height)]
  /\ UNCHANGED <<config, started, snake, apple, powerUps, state, engine, effects, snapshots>>

InitWrap ==
  /\ InitWith({[width |-> w, height |-> h] : w, h \in 1 .. MaxSide}, {{}})
  /\ apple = <<0, 0>>

NextWrap == \E x, y \in -MaxCoord .. MaxCoord : WrapPosition(<<x, y>>)

\* --------------------------------------------- the PowerUpManager on its own
\* The manager's operations on its list, called with any arguments; a run of
\* generateRandomPowerUps is given the power-ups' cells and one more cell and
\* is followed by addPowerUp of each power-up it returned, as in eatApple.
ManagerCall(list, event) ==
  /\ powerUps' = list
  /\ last' = event
  /\ UNCHANGED <<config, started, snake, apple, state, engine, effects, snapshots>>

ManagerAddPowerUp(p) ==
  ManagerCall(addPowerUp(powerUps, p),
              [Event("addPowerUp") EXCEPT !.type = p.type, !.arg = p.position])

ManagerRemovePowerUp(t) ==
  ManagerCall(removePowerUp(powerUps, t),
              [Event("removePowerUp") EXCEPT
                 !.type = t, !.returned = removePowerUpReturns(powerUps, t)])

ManagerClearAllPowerUps == ManagerCall(<<>>, Event("clearAllPowerUps"))

ManagerGenerateRandomPowerUps ==
  \E occupiedPositions \in {Positions(powerUps) \cup {c} : c \in Cells} :
    \E roll \in Rolls(occupiedPositions, config.powerUps) :
      ManagerCall(AddAll(powerUps, generateRandomPowerUps(1, roll)),
                  Event("generateRandomPowerUps"))

InitManager ==
  /\ InitWith({Square}, {{"magnet", "bonus", "freeze"}})
  /\ apple = <<0, 0>>

NextManager ==
  \/ \E t \in config.powerUps, c \in Cells :
       ManagerAddPowerUp([type |-> t, position |-> c])
  \/ \E t \in config.powerUps : ManagerRemovePowerUp(t)
  \/ ManagerClearAllPowerUps
  \/ ManagerGenerateRandomPowerUps

\* ------------------------------------------------ the state store on its own
\* getState() returns { ...this.state }: a new object whose snake, powerUps
\* and activePowerUps are the store's own arrays.  A snapshot is kept with the
\* fields in which it still shares the store's array: a method that assigns a
\* new array to a field of the store ends the sharing, one that changes the
\* array in place (push, splice) changes it for every holder.
ListFields == {"snake", "powerUps", "activePowerUps"}

Unshare(snaps, f) ==
  [i \in DOMAIN snaps |-> [snaps[i] EXCEPT !.shared = @ \ {f}]]

WriteThrough(snaps, f, list) ==
  [i \in DOMAIN snaps |->
     IF f \in snaps[i].shared THEN [snaps[i] EXCEPT !.value[f] = list] ELSE snaps[i]]

StoreCall(st, snaps, event) ==
  /\ state' = st
  /\ snapshots' = snaps
  /\ last' = event
  /\ UNCHANGED <<config, started, snake, apple, powerUps, engine, effects>>

StoreGetState ==
  /\ Len(snapshots) < MaxViews
  /\ StoreCall(state, Append(snapshots, [value |-> state, shared |-> ListFields]),
               Event("getState"))

StoreUpdateSnake(segments) ==
  StoreCall([state EXCEPT !.snake = segments], Unshare(snapshots, "snake"),
            Event("updateSnake"))

StoreAddActivePowerUp(t) ==
  LET st == addActivePowerUp(state, t) IN
  StoreCall(st, WriteThrough(snapshots, "activePowerUps", st.activePowerUps),
            [Event("addActivePowerUp") EXCEPT !.type = t])

StoreRemoveActivePowerUp(t) ==
  LET st == removeActivePowerUp(state, t) IN
  StoreCall(st, WriteThrough(snapshots, "activePowerUps", st.activePowerUps),
            [Event("removeActivePowerUp") EXCEPT !.type = t])

\* A holder of snapshot i pushes x onto the snapshot's list f.
SnapshotPush(i, f, x) ==
  /\ i \in DOMAIN snapshots
  /\ Len(snapshots[i].value[f]) < MaxList
  /\ LET list == Append(snapshots[i].value[f], x)
         mine == [snapshots EXCEPT ![i].value[f] = list]
     IN IF f \in snapshots[i].shared
        THEN StoreCall([state EXCEPT ![f] = list], WriteThrough(mine, f, list),
                       Event("snapshotPush"))
        ELSE StoreCall(state, mine, Event("snapshotPush"))

InitStore ==
  /\ InitWith({Row}, {{"magnet", "bonus"}})
  /\ apple = <<0, 0>>

NextStore ==
  \/ StoreGetState
  \/ \E c \in Cells : StoreUpdateSnake(<<c>>)
  \/ \E t \in config.powerUps : StoreAddActivePowerUp(t)
  \/ \E t \in config.powerUps : StoreRemoveActivePowerUp(t)
  \/ \E i \in 1 .. MaxViews :
       \/ \E c \in Cells : SnapshotPush(i, "snake", c)
       \/ \E t \in config.powerUps : SnapshotPush(i, "activePowerUps", t)

\* ------------------------------------------------- the strategies on their own
\* A strategy object used through its interface: apply, remove called by a
\* user of the object, and the callbacks of the timers apply has scheduled.
\* effects holds the scheduled expiry timeouts, one per applied strategy.
Applied(t, e) == Instance(t, e) @@ [removed |-> FALSE, intervalId |-> t = "bonus"]

StrategyCall(e, pending, event) ==
  /\ engine' = e
  /\ effects' = pending
  /\ last' = event
  /\ UNCHANGED <<config, started, snake, apple, powerUps, state, snapshots>>

StrategyApplyCall(t) ==
  /\ Len(effects) < MaxPending
  /\ engine.currentUpdateTime <= MaxUpdateTime
  /\ StrategyCall(StrategyApply(t, engine), Append(effects, Applied(t, engine)),
                  [Event("strategyApply") EXCEPT !.type = t])

\* remove called by a user of the object: no remove clears the timeout.
StrategyRemoveCall(i) ==
  /\ i \in DOMAIN effects
  /\ StrategyCall(StrategyRemove(effects[i], engine),
                  [effects EXCEPT ![i].removed = TRUE, ![i].intervalId = FALSE],
                  [Event("strategyRemove") EXCEPT !.type = effects[i].type])

StrategyTimeout(i) ==
  /\ i \in DOMAIN effects
  /\ StrategyCall(StrategyRemove(effects[i], engine), RemoveAt(effects, i),
                  [Event("strategyTimeout") EXCEPT !.type = effects[i].type])

StrategyFlip(i) ==
  /\ i \in DOMAIN effects
  /\ effects[i].intervalId
  /\ StrategyCall(BonusFlipIcon(engine), effects, Event("strategyFlip"))

InitStrategy ==
  /\ InitWith({Row}, {{"magnet", "slowMotion", "bonus"}})
  /\ apple = <<0, 0>>

NextStrategy ==
  \/ \E t \in config.powerUps : StrategyApplyCall(t)
  \/ \E i \in 1 .. MaxPending : StrategyRemoveCall(i)
  \/ \E i \in 1 .. MaxPending : StrategyTimeout(i)
  \/ \E i \in 1 .. MaxPending : StrategyFlip(i)

\* ------------------------------------------ the store's flags, both sources
\* src/ holds two sources of the class GameStateService: the one in
\* services/GameStateService.ts and the one in services/InputService.ts.  They
\* differ in setGameOver; which of them a build has is fixed at the start.
StoreSources == {"GameStateService.ts", "InputService.ts"}

\* setGameOver of services/GameStateService.ts: it writes the paused flag.
setGameOverWritingPaused(st, v) == [st EXCEPT !.isPaused = v]

StoreSetGameOver(v) ==
  StoreCall(IF config.store = "GameStateService.ts"
            THEN setGameOverWritingPaused(state, v) ELSE setGameOver(state, v),
            snapshots,
            [Event("setGameOver") EXCEPT !.outcome = IF v THEN "true" ELSE "false"])

StoreSetPaused(v) == StoreCall(setPaused(state, v), snapshots, Event("setPaused"))

\* The engine's handler of the space key, as far as the store goes.
StoreSpace ==
  StoreCall(IF ~state.isGameOver THEN setPaused(state, ~state.isPaused) ELSE state,
            snapshots, Event("space"))

InitStoreFlags ==
  /\ config \in {[board |-> Row, powerUps |-> {}, store |-> f] : f \in StoreSources}
  /\ started = FALSE
  /\ snake = NewSnake(getCenter)
  /\ apple = <<0, 0>>
  /\ powerUps = <<>>
  /\ state = InitialState(snake.segments, apple)
  /\ engine = InitialEngine
  /\ effects = <<>>
  /\ snapshots = <<>>
  /\ last = Event("construct")

NextStoreFlags ==
  \/ StoreGetState
  \/ \E c \in Cells : StoreUpdateSnake(<<c>>)
  \/ \E v \in BOOLEAN : StoreSetGameOver(v)
  \/ \E v \in BOOLEAN : StoreSetPaused(v)
  \/ StoreSpace

\* --------------------------------------- the three removals, side by side
InitRemoval ==
  /\ InitWith({Row}, {{"slowMotion", "bonus"}})
  /\ apple = <<0, 0>>

NextRemoval ==
  \/ \E t \in config.powerUps : StrategyApplyCall(t)
  \/ \E i \in 1 .. MaxPending : StrategyRemoveCall(i)
  \/ \E i \in 1 .. MaxPending : StrategyTimeout(i)
  \/ \E t \in config.powerUps :
       ManagerAddPowerUp([type |-> t, position |-> getCenter])
  \/ \E t \in config.powerUps : ManagerRemovePowerUp(t)
  \/ \E t \in config.powerUps : StoreAddActivePowerUp(t)
  \/ \E t \in config.powerUps : StoreRemoveActivePowerUp(t)

Spec == Init /\ [][Next]_vars

SpecWide == InitWide /\ [][NextPlay]_vars

SpecInvincible == InitInvincible /\ [][Next]_vars

SpecSpeed == InitSpeed /\ [][Next]_vars

SpecOverlap == InitOverlap /\ [][NextPlay]_vars

SpecBonus == InitBonus /\ [][NextBonus]_vars

SpecFreeze == InitFreeze /\ [][Next]_vars

SpecField == InitField /\ [][NextField]_vars

SpecTeleport == InitTeleport /\ [][NextPlay]_vars

\* The same game with the space and r keys.
SpecTeleportKeys == InitTeleport /\ [][Next]_vars

\* The runtime runs every timeout callback that is due: an expiry that stays
\* scheduled is delivered.
SpecEnds ==
  /\ InitEnds
  /\ [][Next]_vars
  /\ \A i \in 1 .. MaxPending : WF_vars(Expire(i))

SpecSnake == InitSnake /\ [][NextSnake]_vars

SpecSnakeTeleport == InitSnake /\ [][NextSnakeTeleport]_vars

SpecWrap == InitWrap /\ [][NextWrap]_vars

SpecManager == InitManager /\ [][NextManager]_vars

SpecStore == InitStore /\ [][NextStore]_vars

SpecStrategy == InitStrategy /\ [][NextStrategy]_vars

SpecRemoval == InitRemoval /\ [][NextRemoval]_vars

SpecStoreFlags == InitStoreFlags /\ [][NextStoreFlags]_vars

\* ===================================================================== claims

\* C1: a tick that runs while the game is Running and not frozen, and whose move
\* puts the head on another segment, ends the game when invincibility is
\* inactive: isGameOver is set, the tick timer is cancelled in that same tick and
\* nothing is eaten.  When invincibility is active the same collision does not
\* end the game and the tick goes on through the eating steps to the store update.
C1_CollisionTick ==
  [][(last'.op = "update" /\ ~state.isPaused /\ ~state.isGameOver /\ ~engine.gameFrozen) =>
       LET segs == move(snake).segments
           hit == \E i \in 2 .. Len(segs) : segs[i] = segs[1]
       IN hit =>
            IF engine.invincibilityActive
            THEN /\ ~state'.isGameOver
                 /\ last'.outcome = "completed"
                 /\ Len(snake'.segments) >= Len(segs)
                 /\ state'.snake = snake'.segments
                 /\ engine'.tickTimers = engine.tickTimers
            ELSE /\ state'.isGameOver
                 /\ engine'.gameInterval = NoTimer
                 /\ engine'.tickTimers = 0
                 /\ snake'.segments = segs
                 /\ apple' = apple
                 /\ powerUps' = powerUps
                 /\ effects' = effects
                 /\ state'.score = state.score]_vars

\* C1, reached: a tick collided while invincibility was active and the game goes on.
C1_InvincibleCollision ==
  /\ last.op = "update"
  /\ last.collided
  /\ last.invincible
  /\ last.outcome = "completed"
  /\ ~state.isGameOver

\* C2: GameOver is terminal.  From a state with isGameOver set, every step other
\* than restart (a space key, a direction key, a tick callback, and the timer
\* callbacks as well) leaves isGameOver set and leaves isPaused, the snake's
\* segments and direction, the apple, the score and the board's power-ups as
\* they were.
C2_GameOverTerminal ==
  [][(state.isGameOver /\ last'.op # "restart") =>
       /\ state'.isGameOver
       /\ state'.isPaused = state.isPaused
       /\ snake' = snake
       /\ apple' = apple
       /\ state'.score = state.score
       /\ powerUps' = powerUps]_vars

\* C2, reached: a tick callback ran while the game was over.
C2_TickInGameOver ==
  /\ state.isGameOver
  /\ last.op = "update"
  /\ last.outcome = "idle"

\* C3: whenever the game is Paused or GameOver, no tick timer and no blink timer
\* is scheduled.
C3_StoppedMeansNoTimers ==
  (started /\ (state.isPaused \/ state.isGameOver)) =>
    engine.tickTimers = 0 /\ engine.blinkTimers = 0

\* C4: whenever the game is Running after start, exactly one tick timer and
\* exactly one blink-polling timer are scheduled.
C4_RunningHasBothTimers ==
  (started /\ ~state.isPaused /\ ~state.isGameOver) =>
    engine.tickTimers = 1 /\ engine.blinkTimers = 1

\* C5: restart cancels every timer of the session: right after a restart no
\* effect-expiry callback of the previous game is still scheduled.
C5_RestartCancelsTimers == last.op = "restart" => effects = <<>>

\* C6: right after restart the shared context has its initial values.
C6_RestartResetsContext ==
  last.op = "restart" =>
    /\ ~engine.invincibilityActive
    /\ ~engine.gameFrozen
    /\ engine.currentUpdateTime = SpeedHigh
    /\ engine.range = "regular"
    /\ engine.currentBackgroundIcon = ConfigBackground
    /\ engine.currentScorePerApple = ScorePerApple

\* C7: whenever no timed effect is pending expiry, the context is at its base
\* values.
C7_BaseValuesWhenNothingPending ==
  effects = <<>> =>
    /\ engine.currentUpdateTime = SpeedHigh
    /\ engine.currentScorePerApple = ScorePerApple
    /\ engine.currentBackgroundIcon = ConfigBackground
    /\ engine.range = "regular"
    /\ ~engine.invincibilityActive
    /\ ~engine.gameFrozen

\* C8: at most one effect of a power-up type is in force at a time: no two
\* applied effects whose removes are still to run have the same type.
C8_OneEffectPerType ==
  \A i, j \in DOMAIN effects : i # j => effects[i].type # effects[j].type

\* C9: under the expanded range, a tick that runs through the eating steps and
\* whose post-move head is within the configured radius (on both axes) of a
\* power-up on the board eats that power-up, on its cell or not.
C9_MagnetEatsNearbyPowerUp ==
  [][(last'.op = "update" /\ last'.outcome = "completed" /\ engine.range = "expanded") =>
       LET head == move(snake).segments[1] IN
       \A i \in DOMAIN powerUps :
         LET at == powerUps[i].position IN
         (Abs(head[1] - at[1]) <= ExpandedRange /\ Abs(head[2] - at[2]) <= ExpandedRange)
           => powerUps[i].type \notin TypesOf(powerUps')]_vars

\* C10 as stated: on every tick that moves the snake, the apple is eaten (the
\* score rises) iff the post-move head reaches it under the range policy of the
\* tick: the same cell under regular range, within the radius on both board
\* axes, without wraparound, under expanded range.
C10_EveryMovingTick ==
  [][(last'.op = "update" /\ ~state.isPaused /\ ~state.isGameOver /\ ~engine.gameFrozen) =>
       LET head == move(snake).segments[1]
           reach == IF engine.range = "regular" THEN head = apple
                    ELSE /\ Abs(head[1] - apple[1]) <= ExpandedRange
                         /\ Abs(head[2] - apple[2]) <= ExpandedRange
       IN (state'.score # state.score) <=> reach]_vars

\* C10, amended: the same, on every tick that moves the snake and does not end
\* the game.
C10_AppleEatenIffInReach ==
  [][(/\ last'.op = "update"
      /\ ~state.isPaused /\ ~state.isGameOver /\ ~engine.gameFrozen
      /\ ~state'.isGameOver) =>
       LET head == move(snake).segments[1]
           reach == IF engine.range = "regular" THEN head = apple
                    ELSE /\ Abs(head[1] - apple[1]) <= ExpandedRange
                         /\ Abs(head[2] - apple[2]) <= ExpandedRange
       IN /\ (state'.score # state.score) <=> reach
          /\ reach => state'.score = state.score + engine.currentScorePerApple]_vars

\* C10, reached: under expanded range a tick ate the apple from a neighbouring cell.
C10_AteFromNeighbourCell ==
  /\ last.op = "update"
  /\ last.outcome = "completed"
  /\ last.range = "expanded"
  /\ last.ateApple
  /\ last.head # last.appleWas

\* C11: on a tick where the apple is eaten the snake becomes exactly one segment
\* longer, by re-appending the tail vacated by that tick's move with all other
\* segments unchanged; the score rises by exactly the score-per-apple in force;
\* the apple is respawned on the board; the power-ups that were on the board
\* stay or are eaten, the rolled ones are added.
C11_AppleTickGrowsByOne ==
  [][(last'.op = "update" /\ last'.outcome = "completed" /\ last'.ateApple) =>
       /\ snake'.segments = Append(move(snake).segments, MovedTail(snake))
       /\ state'.score = state.score + engine.currentScorePerApple
       /\ apple' \in Cells
       /\ TypesOf(powerUps) \subseteq TypesOf(powerUps') \cup {last'.atePowerUp}]_vars

\* C12: at every apple spawn or respawn (engine construction, apple eaten,
\* restart) for which the position validator returned a cell, the apple's new
\* position differs from every snake segment and from the position of every
\* power-up that was on the board at that moment.
C12_AppleSpawnsOnFreeCell ==
  (\/ last.op = "construct"
   \/ last.op = "restart" /\ last.validated
   \/ last.op = "update" /\ last.ateApple /\ last.validated) =>
    /\ apple \notin SeqToSet(snake.segments)
    /\ apple \notin last.residents

\* C13: from the moment a freeze effect is applied until its remove has run,
\* every tick callback leaves the snake's segments, the apple, the score, the
\* board's power-ups and isGameOver unchanged, and a tick of the Running game
\* only re-renders.  Once no freeze effect is pending, a tick of the Running
\* game simulates again: it moves the snake.
C13_FrozenTicksOnlyRender ==
  [][last'.op = "update" =>
       LET running == ~state.isPaused /\ ~state.isGameOver IN
       IF \E i \in DOMAIN effects : effects[i].type = "freeze"
       THEN /\ snake'.segments = snake.segments
            /\ apple' = apple
            /\ state'.score = state.score
            /\ powerUps' = powerUps
            /\ state'.isGameOver = state.isGameOver
            /\ running => last'.outcome = "frozen"
       ELSE running =>
              /\ last'.outcome \in {"completed", "gameover"}
              /\ SubSeq(snake'.segments, 1, Len(snake.segments)) = move(snake).segments]_vars

\* C13, reached: a tick of the Running game ran while a freeze effect was in
\* force and did not simulate.
C13_TickWhileFrozen ==
  /\ last.op = "update"
  /\ last.outcome = "frozen"
  /\ \E i \in DOMAIN effects : effects[i].type = "freeze"
  /\ ~state.isPaused /\ ~state.isGameOver

\* C14: while invincibility has not been active (no configuration of Spec
\* enables it), after every tick that ran through the eating steps the snake's
\* segments are pairwise distinct positions, also when the tick ate both the
\* apple and a power-up.
C14_SegmentsDistinctAfterTick ==
  (last.op = "update" /\ last.outcome = "completed" /\ ~engine.invincibilityActive) =>
    \A i, j \in DOMAIN snake.segments : i # j => snake.segments[i] # snake.segments[j]

\* C15: for a snake of at least two segments, in no tick does the head move onto
\* the cell that the segment directly behind it occupied before the move,
\* whatever direction events were delivered since the tick before.
C15_NeverBackOntoNeck ==
  [][(/\ last'.op = "update"
      /\ ~state.isPaused /\ ~state.isGameOver /\ ~engine.gameFrozen
      /\ Len(snake.segments) >= 2) =>
       move(snake).segments[1] # snake.segments[2]]_vars

\* C16: setDirection(d) leaves the direction as it was, not taking d, iff d is
\* the exact negation of the current direction and the snake has more than one
\* segment; in every other case, a negated d at length 1 included, the
\* direction becomes d.  The segments are never changed.
C16_SetDirectionContract ==
  [][last'.op = "setDirection" =>
       LET d == last'.arg
           negated == d[1] = -snake.direction[1] /\ d[2] = -snake.direction[2]
           rejected == negated /\ Len(snake.segments) > 1
       IN /\ rejected => snake'.direction = snake.direction
          /\ ~rejected => snake'.direction = d
          /\ (snake'.direction # d) <=> rejected
          /\ snake'.segments = snake.segments]_vars

\* C16, reached: the exact negation was offered to a snake of several segments
\* and was not taken.
C16_ReversalRejected ==
  /\ last.op = "setDirection"
  /\ Len(snake.segments) > 1
  /\ last.arg = <<-snake.direction[1], -snake.direction[2]>>

\* C17: move() puts the cell next to the head in the snake's direction, taken
\* modulo the board's width and height, in front as the new head, removes the
\* previous last segment and returns it, leaves the length unchanged and shifts
\* every other segment one index back; the direction is left alone.  A head on
\* a board edge moving outward so reappears on the opposite edge.
C17_MoveContract ==
  [][last'.op = "move" =>
       LET segs == snake.segments
           n == Len(segs)
       IN /\ snake'.segments[1] =
               <<(segs[1][1] + snake.direction[1]) % config.board.width,
                 (segs[1][2] + snake.direction[2]) % config.board.height>>
          /\ last'.returned = segs[n]
          /\ Len(snake'.segments) = n
          /\ \A i \in 2 .. n : snake'.segments[i] = segs[i - 1]
          /\ snake'.direction = snake.direction]_vars

\* C17, reached: a snake of several segments moved right off the last column
\* and its head is on the first column.
C17_MovedAcrossTheEdge ==
  /\ last.op = "move"
  /\ Len(snake.segments) > 1
  /\ snake.direction = <<1, 0>>
  /\ snake.segments[1][1] = 0
  /\ snake.segments[2][1] = config.board.width - 1

\* C18: checkSelfCollision() returns true iff the head's position is the
\* position of some segment behind the head; for a snake of one segment it
\* returns false.  This in every state a snake reaches by move, grow,
\* teleportTo and reset.
C18_SelfCollisionContract ==
  last.op = "checkSelfCollision" =>
    /\ last.collided <=>
         \E i \in DOMAIN snake.segments : i > 1 /\ snake.segments[i] = snake.segments[1]
    /\ Len(snake.segments) = 1 => ~last.collided

\* C18, reached: checkSelfCollision returned true.
C18_CollisionReported ==
  /\ last.op = "checkSelfCollision"
  /\ last.collided
  /\ Len(snake.segments) > 1

\* C19: for every board of width and height at least 1 and every integer
\* position, coordinates below minus the width or height and above twice the
\* width or height included, wrapPosition returns a position on the board:
\* 0 <= x' < width and 0 <= y' < height.
C19_WrapWithinBoard ==
  last.op = "wrapPosition" =>
    /\ 0 <= last.returned[1] /\ last.returned[1] < config.board.width
    /\ 0 <= last.returned[2] /\ last.returned[2] < config.board.height

\* C20: the power-ups tracked on the board always have pairwise distinct types,
\* after any sequence of generateRandomPowerUps, addPowerUp, removePowerUp and
\* clearAllPowerUps calls (the calls through which ticks and restarts change
\* the list); addPowerUp of a type already tracked leaves the list unchanged.
C20_TrackedTypesDistinct ==
  [][/\ \A i, j \in DOMAIN powerUps' : i # j => powerUps'[i].type # powerUps'[j].type
     /\ (last'.op = "addPowerUp" /\ last'.type \in TypesOf(powerUps)) =>
          powerUps' = powerUps]_vars

\* C20, reached: with two power-ups tracked, addPowerUp was called with a
\* tracked type and another cell, and the tracked one is still on its cell.
C20_AddOfTrackedType ==
  /\ last.op = "addPowerUp"
  /\ Len(powerUps) >= 2
  /\ \E i \in DOMAIN powerUps :
       powerUps[i].type = last.type /\ powerUps[i].position # last.arg

C22_PowerUpTick ==
  [][/\ (last'.op = "update" /\ last'.atePowerUp # NoType) =>
          LET t == last'.atePowerUp
              timed == getDuration(t) > 0
          IN /\ Len(snake'.segments) = Len(snake.segments) + 1
             /\ snake'.segments[Len(snake'.segments)] = MovedTail(snake)
             /\ t \notin TypesOf(powerUps')
             /\ timed => effects' = Append(effects, Instance(t, engine))
             /\ ~timed => effects' = effects
             /\ (t \in SeqToSet(state'.activePowerUps)) <=> timed
     /\ \A i \in DOMAIN effects :
          effects' = RemoveAt(effects, i) =>
            effects[i].type \notin SeqToSet(state'.activePowerUps)]_vars

\* C23: every timed effect ends.  Once a magnet, invincibility or freeze effect
\* is applied, with timer callbacks delivered the range returns to regular, the
\* invincibility flag to false and the frozen flag to false, whatever pause,
\* game over or restart comes before the expiry; and while no effect of the
\* type is pending the value stays so.
Pending(t) == \E i \in DOMAIN effects : effects[i].type = t

C23_TimedEffectsEnd ==
  /\ Pending("magnet") ~> (engine.range = "regular")
  /\ Pending("invincibility") ~> ~engine.invincibilityActive
  /\ Pending("freeze") ~> ~engine.gameFrozen
  /\ [](/\ ~Pending("magnet") => engine.range = "regular"
        /\ ~Pending("invincibility") => ~engine.invincibilityActive
        /\ ~Pending("freeze") => ~engine.gameFrozen)

\* C23, reached: the game is over while a magnet effect applied before is still
\* in force.
C23_EffectOutlivesGame ==
  /\ state.isGameOver
  /\ Pending("magnet")
  /\ engine.range = "expanded"

\* C24: right after restart, from Running, Paused or GameOver, the snake is one
\* segment on the board's centre cell heading up, the score is 0, no power-up
\* is on the board, no effect is registered as active, the range is regular,
\* the background glyph and the score-per-apple are the configured ones,
\* isPaused and isGameOver are false and the tick loop runs.
C24_AfterRestart ==
  last.op = "restart" =>
    /\ snake.segments = <<<<config.board.width \div 2, config.board.height \div 2>>>>
    /\ snake.direction = <<0, -1>>
    /\ state.snake = snake.segments
    /\ state.score = 0
    /\ powerUps = <<>> /\ state.powerUps = <<>>
    /\ state.activePowerUps = <<>>
    /\ engine.range = "regular"
    /\ engine.currentBackgroundIcon = ConfigBackground
    /\ engine.currentScorePerApple = ScorePerApple
    /\ ~state.isPaused /\ ~state.isGameOver
    /\ engine.gameInterval # NoTimer /\ engine.tickTimers = 1

\* C24, reached: a restart came while a magnet effect was in force, and the
\* range is regular.
C24_RestartDuringEffect ==
  /\ last.op = "restart"
  /\ Pending("magnet")
  /\ engine.range = "regular"

\* C25: a space key event in Running sets isPaused and in Paused clears it;
\* while isPaused is set, a tick callback or a direction event changes neither
\* the snake's segments nor its direction, nor the apple, the score or the
\* board's power-ups.
C25_PauseFreezesTheGame ==
  [][/\ (Space /\ ~state.isGameOver) => state'.isPaused = ~state.isPaused
     /\ (state.isPaused /\ (last'.op = "update" \/ \E d \in Directions : Direction(d))) =>
          /\ snake' = snake
          /\ apple' = apple
          /\ state'.score = state.score
          /\ powerUps' = powerUps
          /\ state'.isPaused]_vars

\* C25, reached: a tick callback ran while the game was paused.
C25_TickWhilePaused ==
  /\ state.isPaused
  /\ last.op = "update"
  /\ last.outcome = "idle"

\* C26: on a tick that eats a teleport power-up the segments behind the head
\* are left as they are, and a head that is relocated is put on a cell that is
\* no segment of the snake, not the apple and not a power-up on the board,
\* the power-ups added earlier in the same tick included (a head that finds no
\* such cell stays where it is).
C26_TeleportToFreeCell ==
  [][(last'.op = "update" /\ last'.atePowerUp = "teleport") =>
       LET before == move(snake).segments
           h == snake'.segments[1]
           body == SubSeq(snake'.segments, 2, Len(snake'.segments))
       IN /\ \A i \in 2 .. Len(before) : snake'.segments[i] = before[i]
          /\ h # before[1] =>
               /\ h \notin SeqToSet(body)
               /\ h # apple'
               /\ h \notin Positions(powerUps')]_vars

\* C27: a snapshot returned by getState() is a value copy: a change a holder
\* makes to the snake or active-effect list of a snapshot leaves the store, and
\* so what a later getState() returns, as it was; and an update of the store
\* leaves every snapshot already handed out as it was.
C27_SnapshotsAreCopies ==
  [][/\ last'.op = "snapshotPush" => state' = state
     /\ last'.op \in {"updateSnake", "addActivePowerUp", "removeActivePowerUp"} =>
          \A i \in DOMAIN snapshots : snapshots'[i].value = snapshots[i].value]_vars

\* C28: after the remove of a timed strategy has returned, no timer of that
\* strategy remains scheduled: neither its expiry timeout nor, for the bonus,
\* its glyph-flipping interval, so its restoration does not run again later.
C28_RemoveCancelsTimers ==
  [][last'.op = "strategyRemove" =>
       \A i \in DOMAIN effects' : ~effects'[i].removed]_vars

\* C29: at any time at most one tick timer and at most one blink timer exist:
\* starting a loop that already runs (restart, resume) adds none, and the
\* context's setInterval, used by slowMotion, replaces the tick timer.
C29_OneTimerEach ==
  /\ engine.tickTimers <= 1
  /\ engine.blinkTimers <= 1

\* A slowMotion effect is in force and its timer is the one tick timer.
C29_SlowMotionReplacedTimer ==
  /\ Pending("slowMotion")
  /\ engine.gameInterval = SpeedHigh + 200
  /\ engine.tickTimers = 1

\* C30: removal is idempotent.  After remove of a strategy, a second remove of
\* it leaves the context as the first left it; removePowerUp of a type that is
\* not tracked returns none and leaves the tracked list as it was; removing
\* the active-effect record of a type not in the active list leaves the list
\* as it was.
C30_RemovalIdempotent ==
  [][/\ \A i \in DOMAIN effects :
          StrategyRemoveCall(i) => StrategyRemove(effects'[i], engine') = engine'
     /\ (last'.op = "removePowerUp" /\ last'.type \notin TypesOf(powerUps)) =>
          (last'.returned = NoPos /\ powerUps' = powerUps)
     /\ (last'.op = "removeActivePowerUp"
           /\ last'.type \notin SeqToSet(state.activePowerUps)) =>
          state'.activePowerUps = state.activePowerUps]_vars

\* remove of a slow-motion strategy has been called before its expiry.
C30_RemovedBeforeExpiry ==
  /\ last.op = "strategyRemove"
  /\ \E i \in DOMAIN effects :
       /\ effects[i].removed
       /\ effects[i].type = "slowMotion"
       /\ engine.currentUpdateTime = effects[i].originalUpdateTime

\* C31: a firing of the blink-polling callback leaves the snake and its
\* direction, the apple, the board's power-ups, the store (score, active
\* list, pause and game-over flags), the pending effects and every context
\* field as they were; what it keeps is only whether an effect was about to
\* expire, which it can find only while some effect is active.
C31_BlinkPollKeepsSimulation ==
  [][BlinkPoll =>
       /\ snake' = snake /\ apple' = apple /\ powerUps' = powerUps
       /\ state' = state /\ effects' = effects
       /\ engine' = [engine EXCEPT !.previousBlinkState = engine'.previousBlinkState]
       /\ engine'.previousBlinkState => state.activePowerUps # <<>>]_vars

\* A poll has found an active effect about to expire.
C31_PollFoundBlinking ==
  /\ engine.previousBlinkState
  /\ engine.blinkTimers > 0
  /\ state.activePowerUps # <<>>

\* C32: the tick that eats a slowMotion leaves the tick interval at the
\* interval before it plus 200, the tick that eats a boost at the larger of 30
\* and the interval before it minus 100, each with the one tick timer running
\* at that period; and the tick interval is never below the smaller of 30 and
\* the configured interval.
C32_SpeedEffects ==
  [][/\ (last'.op = "update" /\ last'.atePowerUp = "slowMotion") =>
          /\ engine'.currentUpdateTime = engine.currentUpdateTime + 200
          /\ engine'.gameInterval = engine'.currentUpdateTime
          /\ engine'.tickTimers = 1
     /\ (last'.op = "update" /\ last'.atePowerUp = "boost") =>
          /\ engine'.currentUpdateTime = Max(30, engine.currentUpdateTime - 100)
          /\ engine'.gameInterval = engine'.currentUpdateTime
          /\ engine'.tickTimers = 1
     /\ engine'.currentUpdateTime >= (IF SpeedHigh < 30 THEN SpeedHigh ELSE 30)]_vars

\* A boost is in force and has met the lower limit.
C32_BoostAtLowerLimit ==
  /\ Pending("boost")
  /\ last.atePowerUp = "boost"
  /\ engine.currentUpdateTime = 30

C34_PowerUpsAddedOnFreeCells ==
  [][/\ (last'.op = "update" /\ last'.outcome = "completed" /\ last'.ateApple) =>
          \A i \in DOMAIN powerUps' :
            powerUps'[i].type \notin TypesOf(powerUps) =>
              /\ powerUps'[i].position # apple'
              /\ powerUps'[i].position \notin
                   SeqToSet(grow(move(snake), MovedTail(snake)).segments)
     /\ \A i, j \in DOMAIN powerUps' :
          i # j => powerUps'[i].position # powerUps'[j].position]_vars

\* C35: for every timed type whose effect is a flag of the context, the
\* store's active list holds the type exactly when the effect is in force:
\* invincibility iff the invincibility flag is set, freeze iff the game is
\* frozen, magnet iff the range is expanded.
C35_ActiveListMatchesContext ==
  /\ ("invincibility" \in SeqToSet(state.activePowerUps)) <=> engine.invincibilityActive
  /\ ("freeze" \in SeqToSet(state.activePowerUps)) <=> engine.gameFrozen
  /\ ("magnet" \in SeqToSet(state.activePowerUps)) <=> (engine.range = "expanded")

\* C36: a tick that eats the apple adds to the score exactly the score per
\* apple in force when it runs; restart sets the score to 0; no other step
\* (a tick that eats no apple, also one that eats a power-up, a key, pause and
\* resume, an effect's expiry, a blink poll) changes the score; the score is
\* never negative and decreases only by a restart.
C36_ScoreOnlyByApples ==
  [][/\ (last'.op = "update" /\ last'.ateApple) =>
          state'.score = state.score + engine.currentScorePerApple
     /\ last'.op = "restart" => state'.score = 0
     /\ (~(last'.op = "update" /\ last'.ateApple) /\ last'.op # "restart") =>
          state'.score = state.score
     /\ state'.score >= 0
     /\ last'.op # "restart" => state'.score >= state.score]_vars

\* An apple has been eaten while a bonus was in force.
C36_AppleDuringBonus ==
  /\ last.op = "update"
  /\ last.ateApple
  /\ last.atePowerUp = NoType
  /\ engine.currentScorePerApple = 15
  /\ state.score >= 20

\* C37: the snake has at least one segment in every state; a tick changes its
\* length by the number of items it eats (none, the apple or a power-up, or
\* both); restart sets the length to 1; no other step changes it, so it
\* decreases only by a restart, and the relocation by a teleport and the expiry
\* of an effect leave it as it is.
C37_LengthByItemsEaten ==
  [][/\ Len(snake'.segments) >= 1
     /\ last'.op = "update" =>
          Len(snake'.segments) = Len(snake.segments)
                                   + (IF last'.ateApple THEN 1 ELSE 0)
                                   + (IF last'.atePowerUp # NoType THEN 1 ELSE 0)
     /\ last'.op = "restart" => Len(snake'.segments) = 1
     /\ last'.op \notin {"update", "restart"} =>
          Len(snake'.segments) = Len(snake.segments)]_vars

\* One tick has eaten the apple and a teleport.
C37_AppleAndTeleportInOneTick ==
  /\ last.op = "update"
  /\ last.ateApple
  /\ last.atePowerUp = "teleport"
  /\ Len(snake.segments) >= 3

\* C38: the store's isPaused and isGameOver are never both true: a game over
\* is reported only by a tick of the running game, and the space key does
\* nothing once the game is over.
C38_NeverPausedAndOver ==
  ~(state.isPaused /\ state.isGameOver)

\* A tick has reported the game over, in a game that had been paused and
\* resumed or not.
C38_GameOverReported ==
  /\ last.op = "update"
  /\ last.outcome = "gameover"
  /\ state.isGameOver
  /\ ~state.isPaused

\* C39: the store's setGameOver(v) sets isGameOver to v and leaves isPaused
\* and every other field of the state as it was; and a space key that follows
\* setGameOver(true) changes nothing in the store, so it cannot resume the game.
C39_SetGameOverSetsOnlyItsFlag ==
  [][/\ \A v \in BOOLEAN :
          StoreSetGameOver(v) => state' = [state EXCEPT !.isGameOver = v]
     /\ (last.op = "setGameOver" /\ last.outcome = "true" /\ StoreSpace) =>
          state' = state]_vars

====
